---- MODULE Spec2Model ----
(***************************************************************************)
(* Model of the two AutoPkg processors of wycomco-recipes:                 *)
(*   SharedProcessors/MunkiRepoTeamsSummarizer.py  (aggregating)           *)
(*   SharedProcessors/MunkiRepoTeamsNotifier.py    (single shot)           *)
(* One invocation of a processor's main() runs at a time; the file at      *)
(* msg_file_path is the only state that outlives an invocation.            *)
(***************************************************************************)
EXTENDS Integers, Sequences, FiniteSets, TLC

VARIABLES
    file,        \* what is stored at msg_file_path
    env,         \* self.env of the running invocation
    proc,        \* which processor is running: "none", "summarizer", "notifier"
    pc,          \* position of the running invocation in main()
    message,     \* main's local `message`
    msg_file,    \* main's local `msg_file`: "unbound" or "fileobject"
    message_json,\* send_teams_message's local `message_json`
    count,       \* send_teams_message's loop variable
    sent,        \* how send_teams_message ended: "", "returned" or the exception
    result,      \* how the invocation ended: "" while running, "ok" or the exception
    log,         \* effects of the running invocation on storage and transport, in order
    file0,       \* history: `file` when the invocation started
    invocations, \* number of invocations started; also the wall clock
    prev,        \* history: what the invocation before this one was and did
    calls        \* history: the calls made on `message` through the document API

vars == <<file, env, proc, pc, message, msg_file, message_json, count, sent,
          result, log, file0, invocations, prev, calls>>

-----------------------------------------------------------------------------
(* Bounds *)

MaxInvocations == 2
MaxFacts == 2

-----------------------------------------------------------------------------
(* Python values *)

\* the str "" that main binds to `message` first, and other strings
Str(s) == [kind |-> "str", s |-> s]

\* a JSON value that is falsy in Python ({} , [] , null, 0, "")
FalsyJson == [kind |-> "falsy"]

\* a JSON value that is truthy but is not a message dictionary
OtherJson == [kind |-> "other"]

Truthy(v) == \/ v.kind \in {"doc", "other"}
             \/ v.kind = "str" /\ v.s # ""

\* names bound at module level of MunkiRepoTeamsSummarizer.py
ModuleNames == {"json", "subprocess", "datetime", "sleep", "Processor", "ProcessorError"}

\* names main() binds before it reaches its message handling
MainLocals == {"teams_webhook_url", "teams_username", "teams_icon_url",
               "munki_repo_changed", "munki_summary", "autostaging_summary",
               "msg_file_path", "msg_file_clear_at_start",
               "msg_file_clear_after_send", "msg_file_clear_at_finish",
               "message"}

Builtins == {"IOError", "OSError", "FileNotFoundError", "KeyError", "open"}

Defined(n) == n \in ModuleNames \cup MainLocals \cup Builtins

-----------------------------------------------------------------------------
(* MessageDocument *)

DefaultUsername == "AutoPkg"
DefaultIconUrl == "https://munkibuilds.org/logo.jpg"

\* activityImage is a key that is present or not: {} is "no key", {u} is key with value u
new_message(title, activity_title, activity_subtitle, activity_image) ==
    [kind |-> "doc",
     summary |-> title,
     title |-> title,
     section |-> [activitySubtitle |-> activity_subtitle,
                  activityTitle |-> activity_title,
                  activityImage |-> IF activity_image # "" THEN {activity_image} ELSE {},
                  facts |-> <<>>]]

\* mutant of set_activity_title: the title is left as it was
set_activity_title_dropped(m, activity_title) == m

set_activity_title(m, activity_title) ==
    [m EXCEPT !.section.activityTitle = activity_title]

set_activity_subtitle(m, activity_subtitle) ==
    [m EXCEPT !.section.activitySubtitle = activity_subtitle]

\* `del ...["activityImage"]`: KeyError when the key is not there
del_activity_image(m) ==
    IF m.section.activityImage = {}
    THEN [raised |-> "KeyError", value |-> m]
    ELSE [raised |-> "", value |-> [m EXCEPT !.section.activityImage = {}]]

\* mutant of set_activity_image: the value is stored whatever it is
set_activity_image_stored(m, activity_image) ==
    [raised |-> "", value |-> [m EXCEPT !.section.activityImage = {activity_image}]]

\* set_activity_image: what it raises ("" for nothing) and the message after it
set_activity_image(m, activity_image) ==
    IF activity_image # ""
    THEN [raised |-> "", value |-> [m EXCEPT !.section.activityImage = {activity_image}]]
    ELSE LET r == del_activity_image(m)
         IN IF r.raised = "KeyError" THEN [raised |-> "", value |-> m] ELSE r

\* mutant of add_fact: a name that has a row already gets no second row
add_fact_unique(m, name, value) ==
    IF \E i \in 1..Len(m.section.facts) : m.section.facts[i].name = name
    THEN m
    ELSE [m EXCEPT !.section.facts = @ \o <<[name |-> name, value |-> value]>>]

add_fact(m, name, value) ==
    [m EXCEPT !.section.facts = @ \o <<[name |-> name, value |-> value]>>]

-----------------------------------------------------------------------------
(* Upstream summaries *)

NoSummary == [kind |-> "absent"]

ImportResult == [kind |-> "import",
                 data |-> [name |-> "Firefox", version |-> "1.0", catalogs |-> "testing",
                           pkginfo_path |-> "pi", pkg_repo_path |-> "pkg",
                           icon_repo_path |-> "icon"]]

StagingResult == [kind |-> "staging",
                  data |-> [name |-> "Firefox", versions |-> "0.9",
                            staging_catalog |-> "testing",
                            production_catalog |-> "production"]]

\* summaries whose data lacks the "name" key
ImportResultNoName ==
    [kind |-> "import",
     data |-> [version |-> "1.0", catalogs |-> "testing", pkginfo_path |-> "pi",
               pkg_repo_path |-> "pkg", icon_repo_path |-> "icon"]]

StagingResultNoName ==
    [kind |-> "staging",
     data |-> [versions |-> "0.9", staging_catalog |-> "testing",
               production_catalog |-> "production"]]

\* Python's None, as str() and f-strings render it
None == "None"

\* `data.get(key)`: None for a missing key, no exception
dict_get(data, key) == IF key \in DOMAIN data THEN data[key] ELSE None

\* `self.env.get(...) or ""` is falsy exactly for an absent (or empty) summary
SummaryPresent(s) == s.kind # "absent"

\* Summarizer.munki_message: one fact, and the return value is the message alone
munki_message(m, munki_summary) ==
    LET data == munki_summary.data
    IN add_fact(m, dict_get(data, "name"), <<"imported ver. ", data.version, " -> ", data.catalogs>>)

\* Summarizer.staging_message: one fact, and the return value is the message alone
staging_message(m, autostaging_summary) ==
    LET data == autostaging_summary.data
    IN add_fact(m, dict_get(data, "name"),
                <<"staged ver. ", data.versions, " ", data.staging_catalog, " -> ",
                  data.production_catalog>>)

\* `(message, name) = <dict with the keys "type" and "attachments">` binds the
\* first key to `message`
UnpackPair(m) == Str("type")

-----------------------------------------------------------------------------
(* Durable storage and its encoding *)

NoFile == [kind |-> "nofile"]
FileOf(text) == [kind |-> "file", text |-> text]

\* file content that is no JSON text; "empty" is what open(path, 'w') leaves
Garbage == [enc |-> "invalid", bytes |-> "garbage"]
Truncated == [enc |-> "invalid", bytes |-> "empty"]

\* JSON text: the value it decodes to, and whether its bytes are the ones
\* json.dump produces for that value
JsonText(v, canon) == [enc |-> "json", value |-> v, canon |-> canon]

json_dump(v) == JsonText(v, TRUE)

json_load(text) ==
    IF text.enc = "json"
    THEN [raised |-> "", value |-> text.value]
    ELSE [raised |-> "JSONDecodeError", value |-> Str("")]

\* the document a file holds, for comparing storage contents as documents
Decoded(f) ==
    IF f.kind = "file" /\ f.text.enc = "json" THEN <<f.text.value>> ELSE <<>>

-----------------------------------------------------------------------------
(* Exceptions in main()'s storage handling *)

\* `except (IOError, OSError, JSONDecodeError):` around json.load: the tuple
\* is evaluated when an exception arrives; "" means caught
acquire_except(exc) ==
    IF ~Defined("JSONDecodeError") THEN "NameError"
    ELSE IF exc \in {"IOError", "OSError", "JSONDecodeError"} THEN ""
    ELSE exc

\* `os.remove(msg_file)`: the argument is main's file object, not the path
os_remove(f, mf) ==
    IF ~Defined("os") THEN [raised |-> "NameError", file |-> f]
    ELSE IF mf = "unbound" THEN [raised |-> "UnboundLocalError", file |-> f]
    ELSE [raised |-> "TypeError", file |-> f]

\* `try: os.remove(msg_file) except (FileNotFoundError()): pass`: the except
\* clause names an instance, which Python refuses with a TypeError
remove_msg_file(f, mf) ==
    LET r == os_remove(f, mf)
    IN IF r.raised = "" THEN r ELSE [raised |-> "TypeError", file |-> f]

-----------------------------------------------------------------------------
(* Transport *)

\* what one run of /usr/bin/curl can hand back: Popen itself fails, or curl
\* ends with a return code and an error output
TransportOutcomes ==
    {[oserror |-> TRUE, returncode |-> 0, err |-> ""]} \cup
    {[oserror |-> FALSE, returncode |-> rc, err |-> e] :
        rc \in {0, 22}, e \in {"", "curl: error"}}

\* _curl_json_poster: what the call hands to send_teams_message
_curl_json_poster(t) ==
    IF t.oserror THEN [raised |-> "ProcessorError", ret |-> FALSE]
    ELSE IF t.returncode # 0 \/ t.err # ""
         THEN [raised |-> "ProcessorError", ret |-> FALSE]
         ELSE [raised |-> "", ret |-> TRUE]

NoText == [enc |-> "none"]

LogEntry(op, text, ok) == [op |-> op, text |-> text, ok |-> ok]

-----------------------------------------------------------------------------
(* main() of the summarizer: its locals, read from self.env *)

NoEnv == [kind |-> "none"]

teams_webhook_url == env.teams_webhook_url
teams_username == DefaultUsername
teams_icon_url == DefaultIconUrl
munki_repo_changed == env.munki_repo_changed
munki_summary == env.munki_importer_summary_result
autostaging_summary == env.munki_autostaging_summary_result
msg_file_path == env.msg_file_path
\* mutant of msg_file_clear_at_start: the setting is not read
msg_file_clear_at_start_ignored == FALSE

msg_file_clear_at_start == env.msg_file_clear_at_start \/ FALSE
msg_file_clear_after_send == env.msg_file_clear_after_send \/ TRUE
msg_file_clear_at_finish == env.msg_file_clear_at_finish \/ FALSE

SummarizerEnvs ==
    [kind : {"summarizer"},
     msg_file_path : {"", "/path/file.json"},
     msg_file_clear_at_start : BOOLEAN,
     msg_file_clear_after_send : BOOLEAN,
     msg_file_clear_at_finish : BOOLEAN,
     teams_webhook_url : {"", "https://webhook"},
     munki_repo_changed : BOOLEAN,
     munki_importer_summary_result : {NoSummary, ImportResult},
     munki_autostaging_summary_result : {NoSummary, StagingResult}]

\* datetime.now(): the clock advances with every invocation
now == invocations

\* an exception leaves main(): the invocation ends with it
Raise(exc) == pc' = "done" /\ result' = exc

\* the process starts: execute_shell() calls main() with a fresh set of locals
SummarizerStart ==
    /\ pc = "idle"
    /\ invocations < MaxInvocations
    /\ \E e \in SummarizerEnvs : env' = e
    /\ proc' = "summarizer"
    /\ pc' = "acquire"
    /\ message' = Str("")
    /\ msg_file' = "unbound"
    /\ message_json' = NoText
    /\ count' = 0
    /\ sent' = ""
    /\ result' = ""
    /\ log' = <<>>
    /\ file0' = file
    /\ invocations' = invocations + 1
    /\ UNCHANGED file
    /\ UNCHANGED <<prev, calls>>

\* "Prepare / load message"
Acquire ==
    /\ pc = "acquire"
    /\ proc = "summarizer"
    /\ IF msg_file_path # "" /\ ~msg_file_clear_at_start
       THEN \E readable \in BOOLEAN :
            IF file.kind = "nofile"
            THEN Raise("FileNotFoundError") /\ UNCHANGED <<message, msg_file, log>>
            ELSE IF ~readable
            THEN Raise("PermissionError") /\ UNCHANGED <<message, msg_file, log>>
            ELSE LET r == json_load(file.text)
                     x == IF r.raised = "" THEN "" ELSE acquire_except(r.raised)
                 IN /\ msg_file' = "fileobject"
                    /\ log' = Append(log, LogEntry("read", file.text, r.raised = ""))
                    /\ IF x # ""
                       THEN Raise(x) /\ UNCHANGED message
                       ELSE /\ message' = IF r.raised = "" THEN r.value ELSE message
                            /\ pc' = "stamp"
                            /\ UNCHANGED result
       ELSE /\ pc' = "stamp"
            /\ UNCHANGED <<message, msg_file, log, result>>
    /\ UNCHANGED <<file, env, proc, message_json, count, sent, file0, invocations>>
    /\ UNCHANGED <<prev, calls>>

\* mutant of IsFresh: every invocation starts a new message
IsFresh_always(m) == TRUE

IsFresh(m) == ~Truthy(m)

\* `if not message:` new_message and the start marker
Stamp ==
    /\ pc = "stamp"
    /\ proc = "summarizer"
    /\ message' = IF IsFresh(message)
                  THEN set_activity_title(
                           new_message(teams_username, <<>>, "", teams_icon_url),
                           <<"start: ", now>>)
                  ELSE message
    /\ pc' = "extend"
    /\ UNCHANGED <<file, env, proc, msg_file, message_json, count, sent, result,
                   log, file0, invocations>>
    /\ UNCHANGED <<prev, calls>>

\* one `(message, name) = self.xxx_message(message, summary, verbosity)` of main
CallTranslate(m, summary) ==
    IF ~Defined("verbosity") THEN [raised |-> "NameError", value |-> m]
    ELSE IF m.kind = "str" THEN [raised |-> "TypeError", value |-> m]
    ELSE IF m.kind # "doc" THEN [raised |-> "KeyError", value |-> m]
    ELSE [raised |-> "",
          value |-> UnpackPair(IF summary.kind = "import"
                               THEN munki_message(m, summary)
                               ELSE staging_message(m, summary))]

\* "Process repo changes"
Extended(m) ==
    LET r1 == IF munki_repo_changed /\ SummaryPresent(munki_summary)
              THEN CallTranslate(m, munki_summary)
              ELSE [raised |-> "", value |-> m]
    IN IF r1.raised = "" /\ munki_repo_changed /\ SummaryPresent(autostaging_summary)
       THEN CallTranslate(r1.value, autostaging_summary)
       ELSE r1

Extend ==
    /\ pc = "extend"
    /\ proc = "summarizer"
    /\ LET r == Extended(message)
       IN IF r.raised # ""
          THEN Raise(r.raised) /\ UNCHANGED message
          ELSE message' = r.value /\ pc' = "persist" /\ UNCHANGED result
    /\ UNCHANGED <<file, env, proc, msg_file, message_json, count, sent, log,
                   file0, invocations>>
    /\ UNCHANGED <<prev, calls>>

\* mutant of ShouldPersist: the document is not written before delivery
ShouldPersist_never == FALSE

ShouldPersist == msg_file_path # "" /\ ~msg_file_clear_at_finish

\* mutant of persist_except: the write error is reported and dropped
persist_except_swallowed(exc) == ""

\* `except (IOError, OSError) as file_error:` around json.dump ends with
\* `raise file_error`; "" would mean the error is dropped
persist_except(exc) == exc

\* `with open(msg_file_path, 'w')`: the file is emptied, then json.dump fills it
Persist ==
    /\ pc = "persist"
    /\ proc = "summarizer"
    /\ IF ShouldPersist
       THEN \E write_error \in BOOLEAN :
            /\ msg_file' = "fileobject"
            /\ IF write_error
               THEN /\ file' = FileOf(Truncated)
                    /\ log' = Append(log, LogEntry("write", Truncated, FALSE))
                    /\ IF persist_except("OSError") # ""
                       THEN Raise(persist_except("OSError"))
                       ELSE pc' = "deliver" /\ UNCHANGED result
               ELSE /\ file' = FileOf(json_dump(message))
                    /\ log' = Append(log, LogEntry("write", json_dump(message), TRUE))
                    /\ pc' = "deliver"
                    /\ UNCHANGED result
       ELSE /\ pc' = "deliver"
            /\ UNCHANGED <<file, msg_file, log, result>>
    /\ UNCHANGED <<env, proc, message, message_json, count, sent, file0, invocations>>
    /\ UNCHANGED <<prev, calls>>

\* mutant of ShouldDeliver: the webhook url is not looked at
ShouldDeliver_always == TRUE

ShouldDeliver == teams_webhook_url # ""

\* `if teams_webhook_url:` and the entry of send_teams_message
Deliver ==
    /\ pc = "deliver"
    /\ proc = "summarizer"
    /\ IF ShouldDeliver
       THEN /\ message_json' = json_dump(message)
            /\ count' = 1
            /\ pc' = "post"
       ELSE /\ pc' = "finish"
            /\ UNCHANGED <<message_json, count>>
    /\ UNCHANGED <<file, env, proc, message, msg_file, sent, result, log, file0,
                   invocations>>
    /\ UNCHANGED <<prev, calls>>

MaxAttempts == 5

\* one turn of the loop of send_teams_message
Post ==
    /\ pc = "post"
    /\ \E t \in TransportOutcomes :
       LET r == _curl_json_poster(t)
           posted == Append(log, LogEntry("post", message_json, r.raised = "" /\ r.ret))
       IN IF r.raised # ""
          THEN /\ sent' = r.raised
               /\ pc' = "sent"
               /\ log' = posted
               /\ UNCHANGED count
          ELSE IF r.ret
          THEN /\ sent' = "returned"
               /\ pc' = "sent"
               /\ log' = posted
               /\ UNCHANGED count
          ELSE /\ log' = Append(posted, LogEntry("sleep", NoText, TRUE))
               /\ IF count < MaxAttempts
                  THEN count' = count + 1 /\ UNCHANGED <<sent, pc>>
                  ELSE sent' = "ProcessorError" /\ pc' = "sent" /\ UNCHANGED count
    /\ UNCHANGED <<file, env, proc, message, msg_file, message_json, result, file0,
                   invocations>>
    /\ UNCHANGED <<prev, calls>>

\* what main does when send_teams_message has returned or raised
AfterSend ==
    /\ pc = "sent"
    /\ proc = "summarizer"
    /\ IF sent = "returned"
       THEN IF msg_file_clear_after_send
            THEN LET r == remove_msg_file(file, msg_file)
                 IN IF r.raised # ""
                    THEN Raise(r.raised) /\ UNCHANGED <<file, log>>
                    ELSE /\ file' = r.file
                         /\ log' = Append(log, LogEntry("delete", NoText, TRUE))
                         /\ pc' = "finish"
                         /\ UNCHANGED result
            ELSE pc' = "finish" /\ UNCHANGED <<file, log, result>>
       ELSE IF msg_file_clear_at_finish
            THEN LET r == remove_msg_file(file, msg_file)
                 IN IF r.raised # ""
                    THEN Raise(r.raised) /\ UNCHANGED <<file, log>>
                    ELSE /\ file' = r.file
                         /\ log' = Append(log, LogEntry("delete", NoText, TRUE))
                         /\ Raise(sent)
            ELSE pc' = "finish" /\ UNCHANGED <<file, log, result>>
    /\ UNCHANGED <<env, proc, message, msg_file, message_json, count, sent, file0,
                   invocations>>
    /\ UNCHANGED <<prev, calls>>

\* the last statement of main
Finish ==
    /\ pc = "finish"
    /\ proc = "summarizer"
    /\ IF msg_file_clear_at_finish
       THEN LET r == remove_msg_file(file, msg_file)
            IN IF r.raised # ""
               THEN Raise(r.raised) /\ UNCHANGED <<file, log>>
               ELSE /\ file' = r.file
                    /\ log' = Append(log, LogEntry("delete", NoText, TRUE))
                    /\ Raise("ok")
       ELSE Raise("ok") /\ UNCHANGED <<file, log>>
    /\ UNCHANGED <<env, proc, message, msg_file, message_json, count, sent, file0,
                   invocations>>
    /\ UNCHANGED <<prev, calls>>

NoPrev == [kind |-> "none"]

\* what the next invocation's properties need to know of this one, taken when
\* the process exits: did it deliver with clearAfterSend set (flushed); was it
\* to leave its document for the next one (kept); which summaries it was given;
\* the document it wrote and then failed to deliver (undelivered)
InvocationSummary ==
    IF proc # "summarizer" \/ msg_file_path = "" THEN NoPrev
    ELSE LET kept == /\ ~env.msg_file_clear_at_finish
                     /\ teams_webhook_url = ""
                     /\ result \notin {"PermissionError", "OSError"}
         IN [kind |-> "summarizer",
             flushed |-> env.msg_file_clear_after_send /\ sent = "returned",
             kept |-> kept,
             munki |-> kept /\ munki_repo_changed /\ SummaryPresent(munki_summary),
             staging |-> kept /\ munki_repo_changed
                              /\ SummaryPresent(autostaging_summary),
             undelivered |-> IF /\ message.kind = "doc"
                                /\ \E i \in 1..Len(log) : log[i].op = "write" /\ log[i].ok
                                /\ \E i \in 1..Len(log) : log[i].op = "post"
                                /\ sent # "returned"
                             THEN <<message>> ELSE <<>>]

\* the process exits; only the file stays
Exit ==
    /\ pc = "done"
    /\ pc' = "idle"
    /\ proc' = "none"
    /\ env' = NoEnv
    /\ message' = Str("")
    /\ msg_file' = "unbound"
    /\ message_json' = NoText
    /\ count' = 0
    /\ sent' = ""
    /\ result' = ""
    /\ log' = <<>>
    /\ file0' = file
    /\ UNCHANGED <<file, invocations>>
    /\ prev' = InvocationSummary
    /\ UNCHANGED calls

-----------------------------------------------------------------------------
(* main() of the single-shot notifier *)

\* mutant of Notifier_munki_message: the paths are given at verbosity 2 only
Notifier_munki_message_exact(m, summary, verbosity) ==
    LET data == summary.data
        m1 == IF verbosity >= 3 THEN add_fact(m, "Name", dict_get(data, "name")) ELSE m
        m2 == add_fact(m1, "new Version", data.version)
        m3 == IF verbosity >= 1 THEN add_fact(m2, "in Catalogs", data.catalogs) ELSE m2
        m4 == IF verbosity = 2
              THEN add_fact(add_fact(m3, "PkgInfo Path", data.pkginfo_path),
                            "Package Path", data.pkg_repo_path)
              ELSE m3
        m5 == IF verbosity >= 3
              THEN IF data.icon_repo_path # ""
                   THEN add_fact(m4, "Icon Path", data.icon_repo_path)
                   ELSE add_fact(m4, "Icon Path", "no icon path given")
              ELSE m4
    IN [message |-> m5, name |-> dict_get(data, "name")]

\* Notifier.munki_message: the facts, gated by verbosity, and the name
Notifier_munki_message(m, summary, verbosity) ==
    LET data == summary.data
        m1 == IF verbosity >= 3 THEN add_fact(m, "Name", dict_get(data, "name")) ELSE m
        m2 == add_fact(m1, "new Version", data.version)
        m3 == IF verbosity >= 1 THEN add_fact(m2, "in Catalogs", data.catalogs) ELSE m2
        m4 == IF verbosity >= 2
              THEN add_fact(add_fact(m3, "PkgInfo Path", data.pkginfo_path),
                            "Package Path", data.pkg_repo_path)
              ELSE m3
        m5 == IF verbosity >= 3
              THEN IF data.icon_repo_path # ""
                   THEN add_fact(m4, "Icon Path", data.icon_repo_path)
                   ELSE add_fact(m4, "Icon Path", "no icon path given")
              ELSE m4
    IN [message |-> m5, name |-> dict_get(data, "name")]

\* Notifier.staging_message
Notifier_staging_message(m, summary, verbosity) ==
    LET data == summary.data
        m1 == IF verbosity >= 3 THEN add_fact(m, "Name", dict_get(data, "name")) ELSE m
        m2 == add_fact(m1, "autostaged Versions", data.versions)
        m3 == IF verbosity >= 1
              THEN add_fact(add_fact(m2, "from Staging Catalog", data.staging_catalog),
                            "to Production Catalogs", data.production_catalog)
              ELSE m2
    IN [message |-> m3, name |-> dict_get(data, "name")]

NotifierEnvs ==
    [kind : {"notifier"},
     NAME : {"", "Mozilla Firefox"},
     teams_webhook_url : {"https://webhook"},
     verbosity : 0..3,
     munki_repo_changed : BOOLEAN,
     munki_importer_summary_result : {NoSummary, ImportResult, ImportResultNoName},
     munki_autostaging_summary_result : {NoSummary, StagingResult,
                                         StagingResultNoName}]

\* mutant of NotifierMessage: a staging summary is reported also when nothing changed
NotifierMessage_unchanged(e) ==
    LET fresh == new_message(DefaultUsername, <<>>, "", DefaultIconUrl)
        changed == e.munki_repo_changed
        ms == e.munki_importer_summary_result
        as == e.munki_autostaging_summary_result
    IN IF changed /\ SummaryPresent(ms) /\ SummaryPresent(as)
       THEN LET a == Notifier_munki_message(
                         set_activity_subtitle(fresh, "MunkiImporter and AutoStaging"),
                         ms, e.verbosity)
                b == Notifier_staging_message(a.message, as, e.verbosity)
            IN <<set_activity_title(b.message, <<a.name, " / ", e.NAME>>)>>
       ELSE IF changed /\ SummaryPresent(ms)
       THEN LET a == Notifier_munki_message(
                         set_activity_subtitle(fresh, "MunkiImporter"), ms, e.verbosity)
            IN <<set_activity_title(a.message,
                                    IF e.NAME # "" THEN <<a.name, " / ", e.NAME>>
                                                   ELSE <<a.name>>)>>
       ELSE IF SummaryPresent(as)
       THEN LET b == Notifier_staging_message(
                         set_activity_subtitle(fresh, "MunkiAutoStaging"), as, e.verbosity)
            IN <<set_activity_title(b.message, <<b.name>>)>>
       ELSE <<>>

\* the message main() of the notifier builds; <<>> for "Nothing to report to Teams"
NotifierMessage(e) ==
    LET fresh == new_message(DefaultUsername, <<>>, "", DefaultIconUrl)
        changed == e.munki_repo_changed
        ms == e.munki_importer_summary_result
        as == e.munki_autostaging_summary_result
    IN IF changed /\ SummaryPresent(ms) /\ SummaryPresent(as)
       THEN LET a == Notifier_munki_message(
                         set_activity_subtitle(fresh, "MunkiImporter and AutoStaging"),
                         ms, e.verbosity)
                b == Notifier_staging_message(a.message, as, e.verbosity)
            IN <<set_activity_title(b.message, <<a.name, " / ", e.NAME>>)>>
       ELSE IF changed /\ SummaryPresent(ms)
       THEN LET a == Notifier_munki_message(
                         set_activity_subtitle(fresh, "MunkiImporter"), ms, e.verbosity)
            IN <<set_activity_title(a.message,
                                    IF e.NAME # "" THEN <<a.name, " / ", e.NAME>>
                                                   ELSE <<a.name>>)>>
       ELSE IF changed /\ SummaryPresent(as)
       THEN LET b == Notifier_staging_message(
                         set_activity_subtitle(fresh, "MunkiAutoStaging"), as, e.verbosity)
            IN <<set_activity_title(b.message, <<b.name>>)>>
       ELSE <<>>

\* main() of the notifier up to its call of send_teams_message
NotifierMain ==
    /\ pc = "idle"
    /\ invocations < MaxInvocations
    /\ \E e \in NotifierEnvs :
       LET built == NotifierMessage(e)
       IN /\ env' = e
          /\ IF built = <<>>
             THEN /\ message' = new_message(DefaultUsername, <<>>, "", DefaultIconUrl)
                  /\ message_json' = NoText
                  /\ count' = 0
                  /\ Raise("ok")
             ELSE /\ message' = built[1]
                  /\ message_json' = json_dump(built[1])
                  /\ count' = 1
                  /\ pc' = "post"
                  /\ result' = ""
    /\ proc' = "notifier"
    /\ msg_file' = "unbound"
    /\ sent' = ""
    /\ log' = <<>>
    /\ file0' = file
    /\ invocations' = invocations + 1
    /\ UNCHANGED file
    /\ UNCHANGED <<prev, calls>>

\* send_teams_message was main's last statement
NotifierAfterSend ==
    /\ pc = "sent"
    /\ proc = "notifier"
    /\ Raise(IF sent = "returned" THEN "ok" ELSE sent)
    /\ UNCHANGED <<file, env, proc, message, msg_file, message_json, count, sent,
                   log, file0, invocations>>
    /\ UNCHANGED <<prev, calls>>

-----------------------------------------------------------------------------
(* What can be stored at msg_file_path before the first invocation *)

ImportFact == [name |-> ImportResult.data.name,
               value |-> <<"imported ver. ", ImportResult.data.version, " -> ",
                           ImportResult.data.catalogs>>]

StagingFact == [name |-> StagingResult.data.name,
                value |-> <<"staged ver. ", StagingResult.data.versions, " ",
                            StagingResult.data.staging_catalog, " -> ",
                            StagingResult.data.production_catalog>>]

FactSeqs(n) == UNION {[1..k -> {ImportFact, StagingFact}] : k \in 0..n}

\* documents of an earlier series: started at time 0, some facts gathered
PriorDocs ==
    {[set_activity_title(new_message(DefaultUsername, <<>>, "", DefaultIconUrl),
                         <<"start: ", 0>>)
        EXCEPT !.section.facts = fs] : fs \in FactSeqs(MaxFacts)}

InitialFiles ==
    {NoFile, FileOf(Garbage), FileOf(JsonText(FalsyJson, TRUE)),
     FileOf(JsonText(OtherJson, TRUE))}
    \cup {FileOf(JsonText(d, c)) : d \in PriorDocs, c \in BOOLEAN}

Init ==
    /\ file \in InitialFiles
    /\ env = NoEnv
    /\ proc = "none"
    /\ pc = "idle"
    /\ message = Str("")
    /\ msg_file = "unbound"
    /\ message_json = NoText
    /\ count = 0
    /\ sent = ""
    /\ result = ""
    /\ log = <<>>
    /\ file0 = file
    /\ invocations = 0
    /\ prev = NoPrev
    /\ calls = <<>>

Next ==
    \/ SummarizerStart
    \/ Acquire
    \/ Stamp
    \/ Extend
    \/ Persist
    \/ Deliver
    \/ Post
    \/ AfterSend
    \/ Finish
    \/ NotifierMain
    \/ NotifierAfterSend
    \/ Exit

Spec == Init /\ [][Next]_vars

-----------------------------------------------------------------------------
(* The document API on its own: any caller, any order of calls *)

MaxCalls == 4

FactNames == {"Firefox", "Chrome"}
FactValues == {"1.0", "2.0"}
ImageUrls == {"", "http://x", DefaultIconUrl}

\* an ImportResult without an icon
ImportResultNoIcon == [ImportResult EXCEPT !.data.icon_repo_path = ""]

Summaries == {ImportResult, ImportResultNoIcon, StagingResult}

\* the detailed translation of the notifier for either kind of summary
Translate(m, summary, verbosity) ==
    IF summary.kind = "import"
    THEN Notifier_munki_message(m, summary, verbosity)
    ELSE Notifier_staging_message(m, summary, verbosity)

\* the state outside `message` and `calls` does not take part
NoInvocation ==
    /\ file = NoFile
    /\ env = NoEnv
    /\ proc = "none"
    /\ pc = "idle"
    /\ msg_file = "unbound"
    /\ message_json = NoText
    /\ count = 0
    /\ sent = ""
    /\ result = ""
    /\ log = <<>>
    /\ file0 = NoFile
    /\ invocations = 0
    /\ prev = NoPrev

DocFrame ==
    UNCHANGED <<file, env, proc, pc, msg_file, message_json, count, sent, result,
                log, file0, invocations, prev>>

DocInit ==
    /\ NoInvocation
    /\ message = Str("")
    /\ calls = <<>>

DocNewMessage ==
    /\ Len(calls) < MaxCalls
    /\ \E image \in {"", DefaultIconUrl} :
       /\ message' = new_message(DefaultUsername, <<>>, "", image)
       /\ calls' = Append(calls, [op |-> "new_message", image |-> image,
                                   before |-> message])
    /\ DocFrame

DocAddFact ==
    /\ Len(calls) < MaxCalls
    /\ message.kind = "doc"
    /\ \E name \in FactNames, value \in FactValues :
       /\ message' = add_fact(message, name, value)
       /\ calls' = Append(calls, [op |-> "add_fact", name |-> name, value |-> value,
                                   before |-> message])
    /\ DocFrame

DocSetActivityImage ==
    /\ Len(calls) < MaxCalls
    /\ message.kind = "doc"
    /\ \E url \in ImageUrls :
       LET r == set_activity_image(message, url)
       IN /\ message' = r.value
          /\ calls' = Append(calls, [op |-> "set_activity_image", url |-> url,
                                      raised |-> r.raised, before |-> message])
    /\ DocFrame

DocTranslate ==
    /\ Len(calls) < MaxCalls
    /\ message.kind = "doc"
    /\ \E summary \in Summaries, verbosity \in 0..3 :
       /\ message' = Translate(message, summary, verbosity).message
       /\ calls' = Append(calls, [op |-> "translate", summary |-> summary,
                                   verbosity |-> verbosity, before |-> message])
    /\ DocFrame

DocNext ==
    \/ DocNewMessage
    \/ DocAddFact
    \/ DocSetActivityImage
    \/ DocTranslate

DocSpec == DocInit /\ [][DocNext]_vars

\* the message as it was after call i
After(i) == IF i = Len(calls) THEN message ELSE calls[i + 1].before

\* the facts call i appended
Emitted(before, after) ==
    SubSeq(after.section.facts, Len(before.section.facts) + 1,
           Len(after.section.facts))

RECURSIVE IsSubsequence(_, _)
\* a can be got from b by leaving entries out
IsSubsequence(a, b) ==
    IF a = <<>> THEN TRUE
    ELSE IF b = <<>> THEN FALSE
    ELSE IF Head(a) = Head(b) THEN IsSubsequence(Tail(a), Tail(b))
    ELSE IsSubsequence(a, Tail(b))

-----------------------------------------------------------------------------
(* Observations used by the properties *)

IsPost(e) == e.op = "post"
IsWrite(e) == e.op = "write"
IsDelete(e) == e.op = "delete"

\* the POST attempts of the running invocation, in order
Posts == SelectSeq(log, IsPost)
Writes == SelectSeq(log, IsWrite)
Deletes == SelectSeq(log, IsDelete)

AllPostsFailed == \A i \in 1..Len(Posts) : ~Posts[i].ok

\* no two POST attempts without a pause in between
PausedBetweenPosts ==
    \A i \in 1..(Len(log) - 1) : ~(log[i].op = "post" /\ log[i + 1].op = "post")

InSummarizer == proc = "summarizer"
InNotifier == proc = "notifier"
SummarizerDone == InSummarizer /\ pc = "done"

\* storage itself failed (file not readable, write refused): outside every scenario
StorageFailed == result \in {"PermissionError", "OSError"}

HoldsDocument(f) ==
    f.kind = "file" /\ f.text.enc = "json" /\ f.text.value.kind = "doc"

FactsOf(f) == IF HoldsDocument(f) THEN f.text.value.section.facts ELSE <<>>

\* the facts the summaries of this invocation stand for, import before staging
Contributed ==
    IF ~env.munki_repo_changed THEN <<>>
    ELSE (IF SummaryPresent(env.munki_importer_summary_result)
          THEN <<ImportFact>> ELSE <<>>)
         \o
         (IF SummaryPresent(env.munki_autostaging_summary_result)
          THEN <<StagingFact>> ELSE <<>>)

NothingToReport ==
    /\ ~env.munki_repo_changed
    /\ ~SummaryPresent(env.munki_importer_summary_result)
    /\ ~SummaryPresent(env.munki_autostaging_summary_result)

\* the message a fresh start of this invocation produces
FreshStamped ==
    set_activity_title(new_message(DefaultUsername, <<>>, "", DefaultIconUrl),
                       <<"start: ", now>>)

-----------------------------------------------------------------------------
(* Properties *)

\* C1: in the summarizer, a call of send_teams_message whose POST attempts
\* all failed has made exactly 5 attempts, with a pause between consecutive
\* attempts, and only then ended with the terminal ProcessorError.
C1_FiveAttemptsThenDeliveryFailed ==
    (InSummarizer /\ sent # "" /\ AllPostsFailed)
        => /\ Len(Posts) = MaxAttempts
           /\ PausedBetweenPosts
           /\ sent = "ProcessorError"

\* C2: in the notifier, a call of send_teams_message ends in one of two ways
\* only: with success at attempt k (1..5) after k-1 failed attempts, k POSTs
\* made and no error raised; or after 5 failed attempts. A call that ends
\* after j < 5 failed attempts has not made attempt j+1, on which the
\* transport of the claim (k = j+1) succeeds.
C2_SuccessOnAttemptK ==
    (InNotifier /\ sent # "")
        => LET k == Len(Posts)
           IN \/ /\ k \in 1..MaxAttempts
                 /\ Posts[k].ok
                 /\ \A i \in 1..(k - 1) : ~Posts[i].ok
                 /\ sent = "returned"
                 /\ (pc = "done" => result = "ok")
              \/ /\ k = MaxAttempts
                 /\ AllPostsFailed

\* C3 as stated: for every configuration, an invocation with changed=false
\* and no summaries leaves a pre-existing persisted document unchanged and
\* makes no delivery attempt.
C3_NoOpForEveryConfiguration ==
    (SummarizerDone /\ NothingToReport /\ HoldsDocument(file0) /\ ~StorageFailed)
        => /\ Decoded(file) = Decoded(file0)
           /\ Posts = <<>>

C3_Pre ==
    /\ SummarizerDone
    /\ NothingToReport
    /\ HoldsDocument(file0)
    /\ result = "ok"
    /\ env.teams_webhook_url = ""
    /\ ~env.msg_file_clear_at_start
    /\ ~env.msg_file_clear_at_finish

\* C3 amended: with no destination URL, clearAtStart=false and
\* clearAtFinish=false, a completed invocation with changed=false and no
\* summaries leaves the document of a pre-existing persisted file unchanged
\* (the file is rewritten with the same document; byte for byte the same when
\* its bytes were json.dump's) and makes no delivery attempt.
C3_NoOpWithoutUrlAndResets ==
    C3_Pre => /\ Decoded(file) = Decoded(file0)
              /\ (file0.text.canon => file = file0)
              /\ Posts = <<>>

C3_Witness ==
    /\ C3_Pre
    /\ env.msg_file_path # ""
    /\ Len(Writes) = 1
    /\ Len(FactsOf(file0)) > 0
    /\ env.msg_file_clear_after_send

C4_Scenario ==
    /\ SummarizerDone
    /\ ~env.msg_file_clear_at_start
    /\ env.msg_file_clear_after_send
    /\ ~env.msg_file_clear_at_finish
    /\ env.msg_file_path # ""
    /\ env.teams_webhook_url # ""
    /\ HoldsDocument(file0)
    /\ Len(Contributed) = 1
    /\ ~StorageFailed
    /\ (Posts # <<>> => Posts[1].ok)

\* C4: in the scenario (clearAtStart=false, clearAfterSend=true,
\* clearAtFinish=false, n facts persisted, URL set, first attempt succeeds,
\* one fact added) the invocation's effects after the read are, in order:
\* the file written with n+1 facts, one POST of that document, the file
\* deleted; it ends successfully with no persisted file.
C4_WriteDeliverDelete ==
    C4_Scenario
        => LET doc == [file0.text.value EXCEPT
                          !.section.facts = FactsOf(file0) \o Contributed]
           IN /\ Len(log) = 4
              /\ log[1].op = "read"
              /\ log[2] = LogEntry("write", json_dump(doc), TRUE)
              /\ log[3] = LogEntry("post", json_dump(doc), TRUE)
              /\ log[4].op = "delete"
              /\ result = "ok"
              /\ file = NoFile

\* C5: with filePath set and clearAtStart=false, reading a file that is no
\* valid encoding does not end the invocation; it goes on from a fresh
\* document with no facts, stamped "start: " + now.
C5_DecodeFallback ==
    (/\ InSummarizer
     /\ env.msg_file_path # ""
     /\ ~env.msg_file_clear_at_start
     /\ log # <<>>
     /\ log[1].op = "read"
     /\ ~log[1].ok)
        => /\ ~(pc = "done" /\ message = Str(""))
           /\ (pc = "extend" => message = FreshStamped)

\* C6: with filePath set, clearAtStart=false and no file at filePath, the
\* acquire step raises nothing: the invocation gets past it with a message.
C6_MissingFileIsNotAnError ==
    (/\ SummarizerDone
     /\ env.msg_file_path # ""
     /\ ~env.msg_file_clear_at_start
     /\ file0 = NoFile)
        => /\ result # "FileNotFoundError"
           /\ message # Str("")

\* C7: when send_teams_message ended with the delivery failure, the
\* invocation ends with that failure for both values of clearAtFinish: with
\* clearAtFinish=true no file is left, with clearAtFinish=false storage is as
\* it was when delivery started.
C7_DeliveryFailureIsRaised ==
    (SummarizerDone /\ env.msg_file_path # "" /\ sent \notin {"", "returned"})
        => /\ result = sent
           /\ (env.msg_file_clear_at_finish => file = NoFile)
           /\ (~env.msg_file_clear_at_finish => file = FileOf(message_json))

\* C8: after a successful delivery the invocation ends without error, also
\* when the file to delete is already gone; a delete happens only when the
\* caller set clearAfterSend or clearAtFinish; with clearAfterSend=false and
\* clearAtFinish=false the file written in the persist step is still there
\* with the delivered document.
C8_ClearAfterSendOnlyWhenSet ==
    (SummarizerDone /\ env.msg_file_path # "" /\ sent = "returned")
        => /\ result = "ok"
           /\ (Deletes # <<>>
                  => env.msg_file_clear_after_send \/ env.msg_file_clear_at_finish)
           /\ ((~env.msg_file_clear_after_send /\ ~env.msg_file_clear_at_finish)
                   => file = FileOf(message_json))

\* C9: an invocation of a series (same filePath, clearAtStart=false,
\* clearAtFinish=false, no URL) leaves a document whose facts are the facts
\* persisted before it followed by the facts it contributes, in order and
\* with repeated rows kept; so after the last one all facts are there.
C9_FactsAccumulate ==
    (/\ SummarizerDone
     /\ env.msg_file_path # ""
     /\ ~env.msg_file_clear_at_start
     /\ ~env.msg_file_clear_at_finish
     /\ env.teams_webhook_url = ""
     /\ HoldsDocument(file0)
     /\ ~StorageFailed)
        => /\ HoldsDocument(file)
           /\ FactsOf(file) = FactsOf(file0) \o Contributed

\* C10: with no destination URL the summarizer makes no POST attempt, and
\* with filePath set and clearAtFinish=false the document written in the
\* persist step is what is stored when the invocation ends, for both values
\* of clearAfterSend.
C10_NoUrlNoDelivery ==
    (InSummarizer /\ env.teams_webhook_url = "")
        => /\ Posts = <<>>
           /\ ((/\ pc = "done"
                /\ env.msg_file_path # ""
                /\ ~env.msg_file_clear_at_finish
                /\ Writes # <<>>
                /\ Writes[Len(Writes)].ok)
                   => /\ file = FileOf(Writes[Len(Writes)].text)
                      /\ file = FileOf(json_dump(message))
                      /\ result = "ok")

C10_Witness ==
    /\ SummarizerDone
    /\ env.teams_webhook_url = ""
    /\ env.msg_file_path # ""
    /\ ~env.msg_file_clear_at_finish
    /\ ~env.msg_file_clear_after_send
    /\ Len(Writes) = 1
    /\ Writes[1].ok
    /\ HoldsDocument(file)
    /\ file0 = NoFile

\* C11: a write to filePath that fails in the persist step ends the
\* invocation with that error: the failed write is its last effect, no POST
\* attempt is made, send_teams_message is not entered and nothing is deleted.
C11_WriteErrorEndsInvocation ==
    (InSummarizer /\ Writes # <<>> /\ ~Writes[Len(Writes)].ok)
        => /\ pc = "done"
           /\ result = "OSError"
           /\ log[Len(log)].op = "write"
           /\ Posts = <<>>
           /\ Deletes = <<>>
           /\ sent = ""
           /\ count = 0

C11_Witness ==
    /\ SummarizerDone
    /\ Len(Writes) = 1
    /\ ~Writes[1].ok
    /\ env.teams_webhook_url # ""
    /\ env.msg_file_clear_after_send
    /\ HoldsDocument(file0)

\* C12: over every run of consecutive add_fact calls i..j, the facts after
\* call j are the facts before call i followed by the (name, value) pairs of
\* the calls in call order; equal names and equal pairs stay separate rows.
C12_FactsInCallOrder ==
    \A i \in 1..Len(calls) : \A j \in i..Len(calls) :
        (\A k \in i..j : calls[k].op = "add_fact")
            => After(j).section.facts =
                   calls[i].before.section.facts
                   \o [k \in 1..(j - i + 1) |->
                          [name |-> calls[i + k - 1].name,
                           value |-> calls[i + k - 1].value]]

C12_Witness ==
    /\ Len(calls) = 4
    /\ calls[2].op = "add_fact"
    /\ calls[3].op = "add_fact"
    /\ calls[4].op = "add_fact"
    /\ calls[3].name = calls[2].name
    /\ calls[3].value # calls[2].value
    /\ calls[4].name = calls[3].name
    /\ calls[4].value = calls[3].value
    /\ Len(message.section.facts) = 3

\* C13: the section never holds an empty activityImage: the key is absent or
\* its value is non-empty. set_activity_image with an empty url leaves the key
\* absent and raises nothing, also when it was absent already; with a
\* non-empty url it stores exactly that url.
C13_ImageAbsentOrNonEmpty ==
    /\ message.kind = "doc"
          => /\ "" \notin message.section.activityImage
             /\ Cardinality(message.section.activityImage) <= 1
    /\ \A i \in 1..Len(calls) :
          calls[i].op = "set_activity_image"
              => /\ calls[i].raised = ""
                 /\ After(i).section.activityImage =
                        IF calls[i].url = "" THEN {} ELSE {calls[i].url}

C13_Witness ==
    /\ Len(calls) = 3
    /\ calls[1].op = "new_message"
    /\ calls[1].image = ""
    /\ calls[2].op = "set_activity_image"
    /\ calls[2].url = ""
    /\ calls[3].op = "set_activity_image"
    /\ calls[3].url = "http://x"
    /\ message.section.activityImage = {"http://x"}

\* C14: for a fixed summary and every v in 0..2, the facts the detailed
\* translation emits at verbosity v are emitted at verbosity v+1 too, with
\* the same name and value and in the same relative order.
C14_VerbosityMonotone ==
    \A i \in 1..Len(calls) :
        (calls[i].op = "translate" /\ calls[i].verbosity <= 2)
            => IsSubsequence(
                   Emitted(calls[i].before, After(i)),
                   Emitted(calls[i].before,
                           Translate(calls[i].before, calls[i].summary,
                                     calls[i].verbosity + 1).message))

C14_Witness ==
    /\ Len(calls) = 2
    /\ calls[2].op = "translate"
    /\ calls[2].summary = ImportResultNoIcon
    /\ calls[2].verbosity = 2
    /\ Len(message.section.facts) = 4

IsPrefix(a, b) == Len(a) <= Len(b) /\ SubSeq(b, 1, Len(a)) = a

EndsWith(a, b) == Len(b) <= Len(a) /\ SubSeq(a, Len(a) - Len(b) + 1, Len(a)) = b

\* the facts the invocation before this one was given to append
PrevContributed ==
    (IF prev.munki THEN <<ImportFact>> ELSE <<>>)
    \o (IF prev.staging THEN <<StagingFact>> ELSE <<>>)

\* the invocation got as far as the delivery step
PastPersist == result \in {"ok", "TypeError", "ProcessorError"}

\* C15, the half that is a property of every run: when two invocations on
\* the same filePath run one after the other (clearAtStart=false on the
\* second, clearAtFinish=false and no URL on both) and each is given a fact
\* to append, no fact is lost: the persisted facts end with the facts of the
\* first followed by the facts of the second. (The other half says that some interleaving of two concurrent
\* invocations loses a fact; it needs both invocations to append a fact.)
C15_SerialRunsLoseNoFact ==
    (/\ SummarizerDone
     /\ prev.kind = "summarizer"
     /\ prev.kept
     /\ PrevContributed # <<>>
     /\ env.msg_file_path # ""
     /\ ~env.msg_file_clear_at_start
     /\ ~env.msg_file_clear_at_finish
     /\ env.teams_webhook_url = ""
     /\ Contributed # <<>>
     /\ HoldsDocument(file0)
     /\ ~StorageFailed)
        => /\ HoldsDocument(file)
           /\ EndsWith(FactsOf(file), PrevContributed \o Contributed)

\* C16: in a series (same filePath, clearAtStart=false, clearAfterSend=true)
\* the invocation after a successful delivery delivers its own facts only:
\* no fact of the document delivered before is delivered again.
C16_DeliveredAtMostOnce ==
    (/\ InSummarizer
     /\ prev.kind = "summarizer"
     /\ prev.flushed
     /\ env.msg_file_path # ""
     /\ ~env.msg_file_clear_at_start
     /\ env.msg_file_clear_after_send
     /\ Posts # <<>>
     /\ Posts[Len(Posts)].ok)
        => /\ Posts[Len(Posts)].text.value.kind = "doc"
           /\ Posts[Len(Posts)].text.value.section.facts = Contributed

\* C17: with filePath set and clearAtFinish=true the invocation never writes
\* to filePath, and when it ends after the delivery step (skipped, succeeded
\* or failed) no file is at filePath and no error but a delivery failure is
\* raised, also when the file was missing already.
C17_ClearAtFinishLeavesNoFile ==
    (InSummarizer /\ env.msg_file_path # "" /\ env.msg_file_clear_at_finish)
        => /\ Writes = <<>>
           /\ ((pc = "done" /\ PastPersist)
                  => /\ file = NoFile
                     /\ result = IF sent \in {"", "returned"} THEN "ok" ELSE sent)

\* C18: with clearAtStart=true nothing is read from filePath; the message is
\* the fresh stamped document plus facts of this invocation only, so are the
\* documents written and posted, and the file written is what is stored.
C18_ClearAtStartStartsFresh ==
    (InSummarizer /\ env.msg_file_clear_at_start)
        => /\ \A i \in 1..Len(log) : log[i].op # "read"
           /\ (message.kind = "doc"
                  => /\ [message EXCEPT !.section.facts = <<>>] = FreshStamped
                     /\ IsPrefix(message.section.facts, Contributed))
           /\ \A i \in 1..Len(log) :
                 (log[i].op \in {"write", "post"} /\ log[i].text.enc = "json")
                     => /\ log[i].text.value.kind = "doc"
                        /\ IsPrefix(log[i].text.value.section.facts, Contributed)
           /\ ((Writes # <<>> /\ Writes[Len(Writes)].ok /\ Deletes = <<>>)
                  => file = FileOf(Writes[Len(Writes)].text))

C18_Witness ==
    /\ SummarizerDone
    /\ env.msg_file_clear_at_start
    /\ env.msg_file_path # ""
    /\ Len(FactsOf(file0)) > 0
    /\ Len(Writes) = 1
    /\ Writes[1].ok
    /\ Len(Posts) = 1
    /\ Posts[1].ok
    /\ HoldsDocument(file)
    /\ FactsOf(file) = <<>>
    /\ file # file0

\* C19: with filePath absent an invocation does not read, write or delete
\* anything on storage, for all flag values and delivery outcomes, and a
\* successful delivery ends it without error.
C19_NoPathNoStorage ==
    (InSummarizer /\ env.msg_file_path = "")
        => /\ \A i \in 1..Len(log) : log[i].op \notin {"read", "write", "delete"}
           /\ file = file0
           /\ ((pc = "done" /\ sent = "returned") => result = "ok")

\* an attempt is failed exactly when curl's return code is non-zero or its
\* error output is non-empty
ClassifiesAttempt ==
    \A t \in TransportOutcomes :
        ~t.oserror
            => ((_curl_json_poster(t).raised # "" \/ ~_curl_json_poster(t).ret)
                    <=> (t.returncode # 0 \/ t.err # ""))

\* C20: an attempt counts as failed exactly when the return code is non-zero
\* or the error output is non-empty, and a failed attempt below the attempt
\* bound is followed by another turn of the loop: send_teams_message has not
\* ended and nothing is raised to its caller.
C20_FailedAttemptIsRetried ==
    /\ ClassifiesAttempt
    /\ [][(/\ pc = "post"
           /\ Len(Posts') = Len(Posts) + 1
           /\ ~Posts'[Len(Posts')].ok
           /\ count < MaxAttempts)
              => (pc' = "post" /\ sent' = "" /\ count' = count + 1)]_vars

\* the fields of a document that no translation touches
FrameOf(m) ==
    [title |-> m.title,
     activityTitle |-> m.section.activityTitle,
     activitySubtitle |-> m.section.activitySubtitle,
     activityImage |-> m.section.activityImage]

\* the extend step of the summarizer is taken on a message document
ExtendsDocument == InSummarizer /\ pc = "extend" /\ message.kind = "doc"

\* C21: the extend step of the summarizer completes without error and
\* appends nothing when changed is false, and otherwise one fact per present
\* summary, named by the summary's name, the import fact before the staging
\* fact.
C21_ExtendAppendsOnePerSummary ==
    [][ExtendsDocument
         => /\ pc' = "persist"
            /\ message'.kind = "doc"
            /\ message'.section.facts = message.section.facts \o Contributed]_vars

\* C22: a translation hands the document back to main with the new facts
\* appended: after the extend step with a summary to translate, the value
\* main goes on to persist and deliver is a message document with the same
\* title, activityTitle, activitySubtitle and activityImage, and the earlier
\* facts still in front.
C22_TranslationReturnsDocument ==
    [][(ExtendsDocument /\ Contributed # <<>>)
         => /\ pc' = "persist"
            /\ message'.kind = "doc"
            /\ FrameOf(message') = FrameOf(message)
            /\ IsPrefix(message.section.facts, message'.section.facts)]_vars

\* the invocation read a truthy value from the file at msg_file_path
Rehydrated ==
    /\ env.msg_file_path # ""
    /\ ~env.msg_file_clear_at_start
    /\ file0.kind = "file"
    /\ file0.text.enc = "json"
    /\ Truthy(file0.text.value)

\* the summarizer is past its stamp step
PastStamp == InSummarizer /\ pc \notin {"idle", "acquire", "stamp"}

\* C23: past the stamp step the activity title of the document is the
\* "start: " marker with this invocation's timestamp exactly when the
\* invocation started from a fresh document; a document rehydrated from the
\* file has the activity title it was persisted with, and every delivery
\* attempt carries that title.
C23_StampedExactlyWhenFresh ==
    (PastStamp /\ message.kind = "doc")
        => /\ message.section.activityTitle =
                  IF Rehydrated THEN file0.text.value.section.activityTitle
                                ELSE <<"start: ", now>>
           /\ \A i \in 1..Len(Posts) :
                  /\ Posts[i].text.value.kind = "doc"
                  /\ Posts[i].text.value.section.activityTitle =
                         message.section.activityTitle

\* the second invocation of a series delivers the document the first one
\* started and stamped
C23_Witness ==
    /\ InSummarizer
    /\ invocations = 2
    /\ now = 2
    /\ Rehydrated
    /\ Posts # <<>>
    /\ Posts[1].ok
    /\ Posts[1].text.value.kind = "doc"
    /\ Posts[1].text.value.section.activityTitle = <<"start: ", 1>>

\* the document was written to msg_file_path before the first POST attempt
WrittenBeforeFirstPost ==
    \E i \in 1..Len(log) :
        /\ log[i].op = "write"
        /\ log[i].ok
        /\ log[i].text = Posts[1].text
        /\ \A j \in 1..i : log[j].op # "post"

\* C24: with filePath set, clearAtFinish=false and a URL, the document is
\* written to filePath before the first delivery attempt; from then on, also
\* when every attempt fails, the file holds the document with all its facts,
\* and the next invocation with clearAtStart=false starts from exactly the
\* document whose delivery failed.
C24_PersistedBeforeDelivery ==
    /\ (/\ InSummarizer
        /\ env.msg_file_path # ""
        /\ ~env.msg_file_clear_at_finish
        /\ env.teams_webhook_url # ""
        /\ pc \in {"deliver", "post", "sent", "finish"} \/ Posts # <<>>)
           => /\ Posts # <<>> => WrittenBeforeFirstPost
              /\ sent # "returned" => file = FileOf(json_dump(message))
    /\ (/\ InSummarizer
        /\ prev.kind = "summarizer"
        /\ prev.undelivered # <<>>
        /\ env.msg_file_path # ""
        /\ ~env.msg_file_clear_at_start
        /\ pc \notin {"idle", "acquire"}
        /\ result # "PermissionError")
           => /\ Rehydrated
              /\ file0.text.value = prev.undelivered[1]
              /\ pc = "stamp" => message = prev.undelivered[1]

\* the invocation after a failed delivery has read the document, facts
\* included, that the failed one had written
C24_Witness ==
    /\ InSummarizer
    /\ prev.kind = "summarizer"
    /\ prev.undelivered # <<>>
    /\ ~env.msg_file_clear_at_start
    /\ pc = "stamp"
    /\ message.kind = "doc"
    /\ Len(message.section.facts) = 2
    /\ message = prev.undelivered[1]

LacksName(s) == SummaryPresent(s) /\ "name" \notin DOMAIN s.data

\* the invocation translates a summary that has no name
ConsumesNameless ==
    /\ proc # "none"
    /\ pc # "idle"
    /\ env.munki_repo_changed
    /\ \/ LacksName(env.munki_importer_summary_result)
       \/ LacksName(env.munki_autostaging_summary_result)

\* C25: an invocation that consumes a summary without a name ends with an
\* error: it makes no POST attempt for it, writes nothing, and does not end
\* successfully.
C25_MissingNameIsFatal ==
    ConsumesNameless
        => /\ Posts = <<>>
           /\ Writes = <<>>
           /\ pc = "done" => result # "ok"

\* the notifier has something to report
Reportable ==
    /\ env.munki_repo_changed
    /\ \/ SummaryPresent(env.munki_importer_summary_result)
       \/ SummaryPresent(env.munki_autostaging_summary_result)

\* the subtitle for the producers whose summaries are present
ProducersPresent ==
    IF /\ SummaryPresent(env.munki_importer_summary_result)
       /\ SummaryPresent(env.munki_autostaging_summary_result)
    THEN "MunkiImporter and AutoStaging"
    ELSE IF SummaryPresent(env.munki_importer_summary_result)
    THEN "MunkiImporter"
    ELSE "MunkiAutoStaging"

\* fact names only the import translation uses, and only the staging one
ImportOnlyNames ==
    {"new Version", "in Catalogs", "PkgInfo Path", "Package Path", "Icon Path"}
StagingOnlyNames ==
    {"autostaged Versions", "from Staging Catalog", "to Production Catalogs"}

\* C26: in the notifier a delivery is started exactly when changed is true
\* and at least one summary is present; otherwise there is no POST attempt
\* and the invocation ends successfully. The document of a started delivery
\* has the subtitle naming the producers present, facts of each producer
\* present, and no staging fact in front of an import fact.
C26_NotifierDeliversExactlyWhenReportable ==
    (InNotifier /\ pc # "idle")
        => IF Reportable
           THEN /\ pc = "post" \/ Posts # <<>>
                /\ \A i \in 1..Len(Posts) : Posts[i].text = json_dump(message)
                /\ message.section.activitySubtitle = ProducersPresent
                /\ LET facts == message.section.facts
                   IN /\ SummaryPresent(env.munki_importer_summary_result)
                           => \E i \in 1..Len(facts) : facts[i].name = "new Version"
                      /\ SummaryPresent(env.munki_autostaging_summary_result)
                           => \E i \in 1..Len(facts) :
                                  facts[i].name = "autostaged Versions"
                      /\ \A i, j \in 1..Len(facts) :
                             (facts[i].name \in StagingOnlyNames
                              /\ facts[j].name \in ImportOnlyNames) => j < i
           ELSE /\ Posts = <<>>
                /\ pc = "done"
                /\ result = "ok"

\* both producers reported in one card that was delivered
C26_Witness ==
    /\ InNotifier
    /\ Reportable
    /\ ProducersPresent = "MunkiImporter and AutoStaging"
    /\ env.verbosity = 3
    /\ Len(Posts) = 1
    /\ Posts[1].ok
    /\ Len(message.section.facts) = 10
    /\ pc = "done"
    /\ result = "ok"

====
